---------------------------- MODULE Spec2Model ----------------------------
(***************************************************************************)
(* A model of legislation_mx.py: the `query` crawl (pagination, row        *)
(* parsing, reconciliation against the TinyDB store), the `fill_subject`   *)
(* detail pass and the `download_pdfs` asset pass.                         *)
(*                                                                         *)
(* Texts are sequences of one-character strings, so that the string        *)
(* operations of the code (strip, replace, slicing, concatenation, date    *)
(* parsing and formatting) are computed and not assumed.                   *)
(***************************************************************************)
EXTENDS Integers, Sequences, FiniteSets, TLC

(***************************************************************************)
(* Bounds of the model.                                                    *)
(***************************************************************************)
\* number of command invocations in one behaviour
MaxRuns == 4

(***************************************************************************)
(* Optional values (None or a value) are sequences of length 0 or 1.       *)
(***************************************************************************)
None == <<>>

Some(x) == <<x>>

(***************************************************************************)
(* Characters and strings.                                                 *)
(***************************************************************************)
NBSP == "nbsp"          \* the character U+00A0
SP == " "
SLASH == "/"
DASH == "-"
Digits == <<"0", "1", "2", "3", "4", "5", "6", "7", "8", "9">>

IsDigit(c) == \E i \in 1..10 : Digits[i] = c

DigitVal(c) == (CHOOSE i \in 1..10 : Digits[i] = c) - 1

RECURSIVE ToNum(_)
ToNum(s) == IF s = <<>> THEN 0
            ELSE 10 * ToNum(SubSeq(s, 1, Len(s) - 1)) + DigitVal(s[Len(s)])

\* str.replace("\xa0", "")
RECURSIVE RemoveNbsp(_)
RemoveNbsp(s) == IF s = <<>> THEN <<>>
                 ELSE IF Head(s) = NBSP THEN RemoveNbsp(Tail(s))
                 ELSE <<Head(s)>> \o RemoveNbsp(Tail(s))

\* str.strip(): leading and trailing whitespace removed (U+00A0 is whitespace
\* to Python, but replace() has removed it before strip() runs)
IsSpace(c) == c \in {SP, NBSP}

RECURSIVE LStrip(_)
LStrip(s) == IF s # <<>> /\ IsSpace(Head(s)) THEN LStrip(Tail(s)) ELSE s

RECURSIVE RStrip(_)
RStrip(s) == IF s # <<>> /\ IsSpace(s[Len(s)])
             THEN RStrip(SubSeq(s, 1, Len(s) - 1)) ELSE s

Strip(s) == RStrip(LStrip(s))

\* " ".join(nodes)
RECURSIVE JoinSp(_)
JoinSp(nodes) == IF nodes = <<>> THEN <<>>
                 ELSE IF Len(nodes) = 1 THEN nodes[1]
                 ELSE nodes[1] \o <<SP>> \o JoinSp(Tail(nodes))

\* lines 348-350: the text of one cell
CellText(nodes) == Strip(RemoveNbsp(JoinSp(nodes)))

\* s[:n]
Take(s, n) == SubSeq(s, 1, IF Len(s) < n THEN Len(s) ELSE n)

(***************************************************************************)
(* Dates: datetime.strptime(text, "%d/%m/%Y"), the pydantic date field,    *)
(* str(date) and date.isoformat().                                         *)
(***************************************************************************)
IsLeap(y) == (y % 4 = 0 /\ y % 100 # 0) \/ y % 400 = 0

DaysIn(m, y) == IF m = 2 THEN (IF IsLeap(y) THEN 29 ELSE 28)
                ELSE IF m \in {4, 6, 9, 11} THEN 30 ELSE 31

AllDigits(s) == \A i \in 1..Len(s) : IsDigit(s[i])

\* Some(a datetime at midnight), or None when strptime raises ValueError
Strptime(text) ==
    LET slashes == {i \in 1..Len(text) : text[i] = SLASH} IN
    IF Cardinality(slashes) # 2 THEN None
    ELSE
      LET p1 == CHOOSE i \in slashes : \A j \in slashes : i <= j
          p2 == CHOOSE i \in slashes : \A j \in slashes : j <= i
          ds == SubSeq(text, 1, p1 - 1)
          ms == SubSeq(text, p1 + 1, p2 - 1)
          ys == SubSeq(text, p2 + 1, Len(text))
      IN IF ~(AllDigits(ds) /\ AllDigits(ms) /\ AllDigits(ys)
              /\ Len(ds) \in 1..2 /\ Len(ms) \in 1..2 /\ Len(ys) = 4)
         THEN None
         ELSE LET d == ToNum(ds)
                  m == ToNum(ms)
                  y == ToNum(ys)
              IN IF m \in 1..12 /\ y >= 1 /\ d >= 1 /\ d <= DaysIn(m, y)
                 THEN Some([year |-> y, month |-> m, day |-> d,
                            hour |-> 0, minute |-> 0, second |-> 0])
                 ELSE None

\* the `presented_date: date` field of Result: a datetime at midnight is
\* accepted and becomes its date
DateOf(dt) == [year |-> dt.year, month |-> dt.month, day |-> dt.day]

Pad(n, width) ==
    LET RECURSIVE digs(_, _)
        digs(k, w) == IF w = 0 THEN <<>>
                      ELSE digs(k \div 10, w - 1) \o <<Digits[(k % 10) + 1]>>
    IN digs(n, width)

\* date.isoformat() and str(date): YYYY-MM-DD
Isoformat(d) == Pad(d.year, 4) \o <<DASH>> \o Pad(d.month, 2)
                \o <<DASH>> \o Pad(d.day, 2)


(***************************************************************************)
(* The onclick handler of a link cell.  A handler is a sequence of tokens; *)
(* re_onclik_url is matched with re.match, that is at the start of the     *)
(* handler: a call name, an opening parenthesis, a double quote, one or    *)
(* more tokens other than a double quote, and a double quote.              *)
(***************************************************************************)
QUOTE == "\""
LPAREN == "("

Origin == <<"http://sil.gobernacion.gob.mx">>

\* (window.open|mUtil.winLeft): the dot of the pattern is not escaped and
\* stands for any character
ReCallName(tok) == tok \in {"window.open", "mUtil.winLeft",
                            "window_open", "mUtil_winLeft"}

\* re_onclik_url.match(link): None, or Some(group 2)
ReOnclikUrl(h) ==
    IF Len(h) >= 5 /\ ReCallName(h[1]) /\ h[2] = LPAREN /\ h[3] = QUOTE
       /\ h[4] # QUOTE /\ \E q \in 5..Len(h) : h[q] = QUOTE
    THEN LET q == CHOOSE i \in 5..Len(h) :
                     h[i] = QUOTE /\ \A j \in 5..(i - 1) : h[j] # QUOTE
         IN Some(SubSeq(h, 4, q - 1))
    ELSE None

\* LinkUrl without the rebasing onto the origin of line 358
LinkUrl_Relative(onclick) ==
    IF onclick # None /\ onclick[1] # <<>>
    THEN LET m == ReOnclikUrl(onclick[1])
         IN IF m # None THEN m[1] ELSE <<>>
    ELSE <<>>

\* lines 354-362: the url of a link cell; onclick is None when the cell has
\* no anchor with an onclick attribute
LinkUrl(onclick) ==
    IF onclick # None /\ onclick[1] # <<>>
    THEN LET m == ReOnclikUrl(onclick[1])
         IN IF m # None THEN Origin \o m[1] ELSE <<>>
    ELSE <<>>

Info_link(text, url) == [text |-> text, url |-> url]

(***************************************************************************)
(* The row parser (lines 343-365).  A row is the sequence of its tddatos   *)
(* cells; a cell is its text nodes and its onclick attribute.              *)
(***************************************************************************)
row_keys == <<"num", "subject_type", "subject", "classification",
              "presented_in", "presented_date", "presented_by", "party",
              "legislation", "turn_to", "status", "topic">>

RowWidth == 12

LinkColumns == {2, 6, 9, 10}

DateColumn == 5

\* the value the loop of lines 347-364 stores for column i (0-based)
ColumnValue(i, col) ==
    LET text == CellText(col.nodes) IN
    IF i = DateColumn THEN Strptime(text)[1]
    ELSE IF i \in LinkColumns THEN Info_link(text, LinkUrl(col.onclick))
    ELSE text

\* Result(**info): num is coerced to an int, presented_date to a date;
\* subject_info is not given and stays None
Result(info) ==
    [num |-> ToNum(info.num),
     subject_type |-> info.subject_type,
     subject |-> info.subject,
     subject_info |-> None,
     classification |-> info.classification,
     presented_in |-> info.presented_in,
     presented_date |-> DateOf(info.presented_date),
     presented_by |-> info.presented_by,
     party |-> info.party,
     legislation |-> info.legislation,
     turn_to |-> info.turn_to,
     status |-> info.status,
     topic |-> info.topic]

\* ParseRow with the exception of strptime caught and the row passed over
ParseRow_SkipBadDate(columns) ==
    IF Len(columns) # RowWidth THEN [kind |-> "skip"]
    ELSE IF Strptime(CellText(columns[DateColumn + 1].nodes)) = None
    THEN [kind |-> "skip"]
    ELSE LET info == [k \in {row_keys[i] : i \in 1..RowWidth} |->
                        LET i == CHOOSE j \in 1..RowWidth : row_keys[j] = k
                        IN ColumnValue(i - 1, columns[i])]
         IN IF info.num = <<>> \/ ~AllDigits(info.num)
            THEN [kind |-> "raise", error |-> "ValidationError"]
            ELSE [kind |-> "record", result |-> Result(info)]

\* ParseRow passing over the rows of fewer than twelve cells only: a row of
\* more is read by its first twelve
ParseRow_AtLeast(columns) ==
    IF Len(columns) < RowWidth THEN [kind |-> "skip"]
    ELSE IF Strptime(CellText(columns[DateColumn + 1].nodes)) = None
    THEN [kind |-> "raise", error |-> "ValueError"]
    ELSE LET info == [k \in {row_keys[i] : i \in 1..RowWidth} |->
                        LET i == CHOOSE j \in 1..RowWidth : row_keys[j] = k
                        IN ColumnValue(i - 1, columns[i])]
         IN IF info.num = <<>> \/ ~AllDigits(info.num)
            THEN [kind |-> "raise", error |-> "ValidationError"]
            ELSE [kind |-> "record", result |-> Result(info)]

\* what one table row does to the loop: "skip" (line 346), "raise" (the
\* exception of strptime or of the model's validation) or "record"
ParseRow(columns) ==
    IF Len(columns) # RowWidth THEN [kind |-> "skip"]
    ELSE IF Strptime(CellText(columns[DateColumn + 1].nodes)) = None
    THEN [kind |-> "raise", error |-> "ValueError"]
    ELSE LET info == [k \in {row_keys[i] : i \in 1..RowWidth} |->
                        LET i == CHOOSE j \in 1..RowWidth : row_keys[j] = k
                        IN ColumnValue(i - 1, columns[i])]
         IN IF info.num = <<>> \/ ~AllDigits(info.num)
            THEN [kind |-> "raise", error |-> "ValidationError"]
            ELSE [kind |-> "record", result |-> Result(info)]

(***************************************************************************)
(* The portal: the result pages a query is answered with, the detail page  *)
(* of a subject.  These are the inputs of the program.                     *)
(***************************************************************************)
\* subject.text[:30] in the file names of download_pdfs
PrefixLen == 30

LongTitle == [i \in 1..PrefixLen |-> "x"]

\* two subjects that agree on their first 30 characters
SubjA == LongTitle \o <<"A">>
SubjB == LongTitle \o <<"B">>

Sponsor == <<"D", "i", "p">>

DateText == <<"0", "1", "/", "0", "9", "/", "2", "0", "2", "1">>
DateTextShort == <<"1", "/", "9", "/", "2", "0", "2", "1">>
DateTextBad == <<"3", "1", "/", "0", "2", "/", "2", "0", "2", "1">>

Pendiente == <<"P", "e", "n", "d">>
Aprobada == <<"A", "p", "r", "o", "b">>

DetailPath(k) == <<"/Librerias/pp_ContenidoAsuntos.php?Clave=", k>>

WindowOpen(path) ==
    Some(<<"window.open", LPAREN, QUOTE>> \o path \o <<QUOTE, ",", "1", ")">>)

WinLeft(path) ==
    Some(<<"mUtil.winLeft", LPAREN, QUOTE>> \o path \o <<QUOTE, ")">>)

\* a handler of neither form
OtherHandler == Some(<<"return", SP, "false">>)

Cell(nodes, onclick) == [nodes |-> nodes, onclick |-> onclick]

\* the twelve tddatos cells of a data row
DataRow(num, subj, subjClick, dateText, status, statusClick) ==
    << Cell(<<num>>, None),
       Cell(<<<<"I", "n", "i">>>>, None),
       Cell(subj, subjClick),
       Cell(<<<<"c">>>>, None),
       Cell(<<<<"C", "D">>>>, None),
       Cell(<<dateText>>, None),
       Cell(<<Sponsor>>, WinLeft(<<"/Librerias/pp_PerfilLegislador.php">>)),
       Cell(<<<<"M">>>>, None),
       Cell(<<<<"L", "X", "I", "V">>>>, None),
       Cell(<<<<"C", "o", "m">>>>, OtherHandler),
       Cell(<<status>>, statusClick),
       Cell(<<<<"T">>>>, None) >>

RowA == DataRow(<<"1">>, <<SubjA>>, WindowOpen(DetailPath("1")), DateText,
                Pendiente, None)

\* the same initiative as RowA, seen later: another status, the title
\* padded with U+00A0 and the day and month written without a leading zero
RowA2 == DataRow(<<"7">>, <<<<NBSP>> \o SubjA \o <<NBSP, SP>>>>,
                 WindowOpen(DetailPath("1")), DateTextShort,
                 Aprobada, WindowOpen(<<"/Librerias/pp_Estatus.php">>))

RowB == DataRow(<<"2">>, <<SubjB>>, WindowOpen(DetailPath("2")), DateText,
                Pendiente, None)

RowC == DataRow(<<"3">>, <<<<"L">>, <<"e", "y">>>>, WindowOpen(DetailPath("3")),
                DateText, Pendiente, None)

RowBadDate == DataRow(<<"4">>, <<SubjB>>, WindowOpen(DetailPath("2")),
                      DateTextBad, Pendiente, None)

\* a layout row: it has tddatos cells, but not twelve
RowLayout == << Cell(<<<<"P", "a", "g">>>>, None) >>

\* a row of thirteen tddatos cells: the cells of RowA and one more
RowWide == RowA \o << Cell(<<<<"x">>>>, None) >>

ResultsPath(k) == <<"/Busquedas/Avanzada/ResultadosBusquedaAvanzada.php?Pagina=",
                    Digits[k + 1]>>

Anchor(label, href) == [strong |-> label, href |-> href]

\* page k of n: its rows, and its anchors (a "<" anchor to the page before
\* it, a ">" anchor to the page after it)
ResultPage(k, n, rows) ==
    [rows |-> rows,
     anchors |-> (IF k > 1 THEN <<Anchor(<<"<">>, ResultsPath(k - 1))>> ELSE <<>>)
                 \o (IF k < n THEN <<Anchor(<<">">>, ResultsPath(k + 1))>> ELSE <<>>)]

Chain(pagesRows) ==
    [k \in 1..Len(pagesRows) |-> ResultPage(k, Len(pagesRows), pagesRows[k])]

\* the result sets the portal answers with: rows with pairwise distinct
\* keys, among rows of one cell and of thirteen; rows repeated within a
\* page and across pages; a row whose date does not parse, between two rows
\* that are well formed
ResultSets ==
    << Chain(<< <<RowLayout, RowA>>, <<RowWide, RowC>> >>),
       Chain(<< <<RowA, RowA2>>, <<RowB, RowA>> >>),
       Chain(<< <<RowC, RowBadDate, RowA>>, <<RowB>> >>) >>

\* the page the browser shows after page.goto(url), as its number in the
\* result set: None when the url is not one of the result set
Fetch(rs, url) ==
    IF \E k \in 1..Len(ResultSets[rs]) : Origin \o ResultsPath(k) = url
    THEN Some(CHOOSE k \in 1..Len(ResultSets[rs]) :
                  Origin \o ResultsPath(k) = url)
    ELSE None

\* selector.css("table tr") of the page the browser shows
TableRows(rs, k) == ResultSets[rs][k].rows

\* ParseRow, tabulated over the rows of the portal
Parsed == [rs \in 1..Len(ResultSets) |->
             [k \in 1..Len(ResultSets[rs]) |->
                [i \in 1..Len(TableRows(rs, k)) |->
                    ParseRow(TableRows(rs, k)[i])]]]

\* NextUrl looking for the character U+00BB in place of ">"
NextUrl_Guillemet(page) ==
    LET hits == {i \in 1..Len(page.anchors) :
                    \E j \in 1..Len(page.anchors[i].strong) :
                        page.anchors[i].strong[j] = "raquo"}
    IN IF hits = {} THEN None
       ELSE Some(Origin \o page.anchors[CHOOSE i \in hits :
                                            \A j \in hits : i <= j].href)

\* lines 397-401: the href of the first anchor whose <strong> text contains
\* ">", rebased onto the origin; None when there is none
NextUrl(page) ==
    LET hits == {i \in 1..Len(page.anchors) :
                    \E j \in 1..Len(page.anchors[i].strong) :
                        page.anchors[i].strong[j] = ">"}
    IN IF hits = {} THEN None
       ELSE Some(Origin \o page.anchors[CHOOSE i \in hits :
                                            \A j \in hits : i <= j].href)

(***************************************************************************)
(* The detail page of a subject (fill_subject, lines 222-241): its         *)
(* tdcriterio cells, its tddatos cells, the hrefs of the anchors in them.  *)
(***************************************************************************)
PdfUrl(k) == <<"http://sil.gobernacion.gob.mx/Archivos/Documentos/", k, ".pdf">>

DetailPages ==
    << [keys |-> << <<<<"A", "s", "u", "n", "t", "o">>>>,
                    <<<<SP, "T", "i", "p", "o">>, <<":", SP>>>> >>,
        values |-> << <<<<"I", "n", "i">>, <<SP, "L", "e", "y">>>> >>,
        links |-> <<PdfUrl("1")>>],
       [keys |-> << <<<<"A", "s", "u", "n", "t", "o">>>>,
                    <<<<"T", "i", "p", "o">>>> >>,
        values |-> << <<<<"I", "n", "i">>>>, <<<<"x">>>> >>,
        links |-> <<PdfUrl("2"), PdfUrl("1")>>],
       [keys |-> << <<<<"A", "s", "u", "n", "t", "o">>>> >>,
        values |-> <<>>,
        links |-> <<>>] >>

\* the page the browser shows after page.goto(url): None when the url is
\* not that of a detail page (an empty url among them)
FetchDetail(url) ==
    IF \E k \in 1..Len(DetailPages) : Origin \o DetailPath(Digits[k + 1]) = url
    THEN Some(DetailPages[CHOOSE k \in 1..Len(DetailPages) :
                              Origin \o DetailPath(Digits[k + 1]) = url])
    ELSE None

\* "".join(k.strip() for k in key)
RECURSIVE KeyText(_)
KeyText(nodes) == IF nodes = <<>> THEN <<>>
                  ELSE Strip(Head(nodes)) \o KeyText(Tail(nodes))

\* " ".join([v.strip() for v in values])
ValueText(nodes) == JoinSp([i \in 1..Len(nodes) |-> Strip(nodes[i])])

\* lines 232-241: the dict info; a later key replaces an equal earlier one
SubjectInfo(detail) ==
    LET n == IF Len(detail.keys) - 1 < Len(detail.values)
             THEN Len(detail.keys) - 1 ELSE Len(detail.values)
        names == {KeyText(detail.keys[i + 1]) : i \in 1..n}
    IN [fields |-> [k \in names |->
                       ValueText(detail.values[
                           CHOOSE i \in 1..n :
                               /\ KeyText(detail.keys[i + 1]) = k
                               /\ \A j \in 1..n :
                                     KeyText(detail.keys[j + 1]) = k => j <= i])],
        links |-> detail.links]

(***************************************************************************)
(* The store (TinyDB, JSON storage: every insert and update is written to  *)
(* the file at once).  A document is its fields and its doc_id.            *)
(***************************************************************************)
\* datetime.now().strftime("%Y-%m-%d %H:%M:%S"): the clock, to the second
TimeStamp(t) == t

\* lines 388-392: json.dumps(result.dict(), default=serialize_datetime), then
\* json.loads, then created and modified
Serialize(result, t) ==
    [num |-> result.num,
     subject_type |-> result.subject_type,
     subject |-> result.subject,
     subject_info |-> result.subject_info,
     classification |-> result.classification,
     presented_in |-> result.presented_in,
     presented_date |-> Isoformat(result.presented_date),
     presented_by |-> result.presented_by,
     party |-> result.party,
     legislation |-> result.legislation,
     turn_to |-> result.turn_to,
     status |-> result.status,
     topic |-> result.topic,
     created |-> TimeStamp(t),
     modified |-> TimeStamp(t),
     pdf_url |-> None,
     pdf_filename |-> None,
     text_filename |-> None]

\* the fields of a document, and the document with its id
DataFields == {"num", "subject_type", "subject", "subject_info",
               "classification", "presented_in", "presented_date",
               "presented_by", "party", "legislation", "turn_to", "status",
               "topic", "created", "modified", "pdf_url", "pdf_filename",
               "text_filename"}

Document(data, id) == [f \in DataFields \cup {"doc_id"} |->
                          IF f = "doc_id" THEN id ELSE data[f]]

\* the id TinyDB gives the next document: one more than the largest
NextDocId(db) ==
    IF db = <<>> THEN 1
    ELSE 1 + (CHOOSE m \in {db[i].doc_id : i \in 1..Len(db)} :
                 \A i \in 1..Len(db) : db[i].doc_id <= m)

DbInsert(db, data) == Append(db, Document(data, NextDocId(db)))

\* KeyMatches with the date written as the portal writes it (DD/MM/YYYY)
\* instead of str(date)
KeyMatches_PortalDate(doc, result) ==
    /\ doc.subject.text = result.subject.text
    /\ doc.presented_date = Pad(result.presented_date.day, 2) \o <<SLASH>>
                             \o Pad(result.presented_date.month, 2) \o <<SLASH>>
                             \o Pad(result.presented_date.year, 4)
    /\ doc.presented_by.text = result.presented_by.text

\* the query of lines 367-369, 382-384 and 246-248 on a stored document
KeyMatches(doc, result) ==
    /\ doc.subject.text = result.subject.text
    /\ doc.presented_date = Isoformat(result.presented_date)
    /\ doc.presented_by.text = result.presented_by.text

DbSearch(db, result) == {i \in 1..Len(db) : KeyMatches(db[i], result)}

\* db.update(fields, cond): the given fields of every document in hits
DbUpdate(db, fields, hits) ==
    [i \in 1..Len(db) |->
        IF i \in hits
        THEN [f \in DOMAIN db[i] |->
                 IF f \in DOMAIN fields THEN fields[f] ELSE db[i][f]]
        ELSE db[i]]

\* date.fromisoformat, as the date field of Result reads a stored date
FromIsoformat(s) == [year |-> ToNum(SubSeq(s, 1, 4)),
                     month |-> ToNum(SubSeq(s, 6, 7)),
                     day |-> ToNum(SubSeq(s, 9, 10))]

\* Result(**r) of a stored document r: the fields of the model are read,
\* the others (created, modified, pdf_url, ...) are ignored
LoadResult(doc) ==
    [num |-> doc.num,
     subject_type |-> doc.subject_type,
     subject |-> doc.subject,
     subject_info |-> doc.subject_info,
     classification |-> doc.classification,
     presented_in |-> doc.presented_in,
     presented_date |-> FromIsoformat(doc.presented_date),
     presented_by |-> doc.presented_by,
     party |-> doc.party,
     legislation |-> doc.legislation,
     turn_to |-> doc.turn_to,
     status |-> doc.status,
     topic |-> doc.topic]

(***************************************************************************)
(* The reconciler (lines 366-395): the store and the two counters after    *)
(* one parsed record.                                                      *)
(***************************************************************************)
\* Reconcile with the matching documents replaced by the new record
Reconcile_Replace(db, ins, upd, result, save, t) ==
    LET records == DbSearch(db, result) IN
    IF records # {}
    THEN IF save
         THEN [db |-> DbUpdate(db, Serialize(result, t), records),
               inserted |-> ins, updated |-> upd + 1]
         ELSE [db |-> db, inserted |-> ins, updated |-> upd]
    ELSE IF save
         THEN [db |-> DbInsert(db, Serialize(result, t)),
               inserted |-> ins + 1, updated |-> upd]
         ELSE [db |-> db, inserted |-> ins, updated |-> upd]

\* Reconcile with the update of a matching document outside `if save`
Reconcile_AlwaysUpdate(db, ins, upd, result, save, t) ==
    LET records == DbSearch(db, result) IN
    IF records # {}
    THEN [db |-> DbUpdate(db, [status |-> result.status,
                               modified |-> TimeStamp(t)], records),
          inserted |-> ins, updated |-> IF save THEN upd + 1 ELSE upd]
    ELSE IF save
         THEN [db |-> DbInsert(db, Serialize(result, t)),
               inserted |-> ins + 1, updated |-> upd]
         ELSE [db |-> db, inserted |-> ins, updated |-> upd]

\* Reconcile with an update counted only when the status is another one
Reconcile_CountChanged(db, ins, upd, result, save, t) ==
    LET records == DbSearch(db, result) IN
    IF records # {}
    THEN IF save
         THEN [db |-> DbUpdate(db, [status |-> result.status,
                                    modified |-> TimeStamp(t)], records),
               inserted |-> ins,
               updated |-> IF \E i \in records : db[i].status # result.status
                           THEN upd + 1 ELSE upd]
         ELSE [db |-> db, inserted |-> ins, updated |-> upd]
    ELSE IF save
         THEN [db |-> DbInsert(db, Serialize(result, t)),
               inserted |-> ins + 1, updated |-> upd]
         ELSE [db |-> db, inserted |-> ins, updated |-> upd]

\* Reconcile with the writes kept back for the end of the run
Reconcile_Buffered(db, ins, upd, result, save, t) ==
    LET records == DbSearch(db, result) IN
    IF records # {}
    THEN [db |-> db, inserted |-> ins,
          updated |-> IF save THEN upd + 1 ELSE upd]
    ELSE [db |-> db, inserted |-> IF save THEN ins + 1 ELSE ins,
          updated |-> upd]

Reconcile(db, ins, upd, result, save, t) ==
    LET records == DbSearch(db, result) IN
    IF records # {}
    THEN IF save
         THEN [db |-> DbUpdate(db, [status |-> result.status,
                                    modified |-> TimeStamp(t)], records),
               inserted |-> ins, updated |-> upd + 1]
         ELSE [db |-> db, inserted |-> ins, updated |-> upd]
    ELSE IF save
         THEN [db |-> DbInsert(db, Serialize(result, t)),
               inserted |-> ins + 1, updated |-> upd]
         ELSE [db |-> db, inserted |-> ins, updated |-> upd]

(***************************************************************************)
(* The state.                                                              *)
(***************************************************************************)
VARIABLES
    store,       \* the documents of the TinyDB file, in insertion order
    disk,        \* the files of the download directory: path -> content
    now,         \* the wall clock, in seconds: two commands start in
                 \* different seconds, and the model takes a command to
                 \* end within the second it started in
    runs,        \* the commands started so far
    cmd,         \* the command that runs or ran last: query, fill_subject, download_pdfs
    pc,          \* its position: idle, the positions of the command, done, aborted
    error,       \* the exception that aborted it
    config,      \* its options: save_into_db, purge_db, and the result set
                 \* the portal answers q with
    next_url,    \* query: the variable next_url
    page,        \* query: the page the selector was built from
    rowIdx,      \* query: the row of table_rows the loop is at
    inserted,    \* query: the counter inserted
    updated,     \* query: the counter updated (also that of fill_subject)
    iter,        \* fill_subject, download_pdfs: the documents `for r in db` iterates
    idx,         \* fill_subject, download_pdfs: the document the loop is at
    playwright,  \* none, running, stopped
    browser,     \* none, open, closed
    resp,        \* download_pdfs: the responses of requests.get not yet
                 \* read to their end nor closed
    fds,         \* the file handles that are open
    tmpdir,      \* whether the temporary directory of ocr_pdf_file exists
    visited,     \* history: the urls the loop of query went to
    began,       \* history: the store and the disk when the command began
                 \* its work (the store after the purge, if any)
    found,       \* history: records of this run whose key was in the store
    notFound,    \* history: records of this run whose key was not
    calls,       \* history: the requests.get calls, the urls they asked for
                 \* and the OCR conversions of this run of download_pdfs
    prev         \* history: the command before this one, as it ended

vars == <<store, disk, now, runs, cmd, pc, error, config, next_url, page,
          rowIdx, inserted, updated, iter, idx, playwright, browser, resp,
          fds, tmpdir, visited, began, found, notFound, calls, prev>>

queryVars == <<next_url, page, rowIdx>>
loopVars == <<iter, idx>>
handleVars == <<resp, fds, tmpdir>>

NoConfig == [save |-> TRUE, purge |-> FALSE, rs |-> 0]

NoCalls == [network |-> 0, ocr |-> 0, urls |-> <<>>]

NoPrev == [cmd |-> "none", pc |-> "idle", config |-> NoConfig,
           fromEmpty |-> FALSE, inserted |-> 0, updated |-> 0]

Init ==
    /\ store = <<>>
    /\ disk = <<>>
    /\ now = 0
    /\ runs = 0
    /\ cmd = "none"
    /\ pc = "idle"
    /\ error = "none"
    /\ config = NoConfig
    /\ next_url = None
    /\ page = None
    /\ rowIdx = 0
    /\ inserted = 0
    /\ updated = 0
    /\ iter = <<>>
    /\ idx = 0
    /\ playwright = "none"
    /\ browser = "none"
    /\ resp = 0
    /\ fds = 0
    /\ tmpdir = FALSE
    /\ visited = <<>>
    /\ began = [store |-> <<>>, disk |-> <<>>]
    /\ found = 0
    /\ notFound = 0
    /\ calls = NoCalls
    /\ prev = NoPrev

\* a command is not running: another may be started (a new process)
Terminal == pc \in {"idle", "done", "aborted"}

\* how the command that ran last ended
Ended == [cmd |-> cmd, pc |-> pc, config |-> config,
          fromEmpty |-> (began.store = <<>>), inserted |-> inserted,
          updated |-> updated]

\* the state every command starts from: a new process
Begin(c, cfg) ==
    /\ Terminal
    /\ runs < MaxRuns
    /\ runs' = runs + 1
    /\ now' = now + 1
    /\ cmd' = c
    /\ config' = cfg
    /\ prev' = Ended
    /\ inserted' = 0
    /\ updated' = 0
    /\ found' = 0
    /\ notFound' = 0
    /\ visited' = <<>>
    /\ page' = None
    /\ rowIdx' = 0
    /\ resp' = 0
    /\ fds' = 0
    /\ tmpdir' = FALSE
    /\ calls' = NoCalls

\* an exception leaves the `with sync_playwright()` block: the context
\* manager stops the driver, which ends the browser it launched
Raise(e) ==
    /\ pc' = "aborted"
    /\ error' = e
    /\ playwright' = IF playwright = "running" THEN "stopped" ELSE playwright
    /\ browser' = IF browser = "open" THEN "closed" ELSE browser

(***************************************************************************)
(* query (lines 266-405).                                                  *)
(***************************************************************************)
\* StartQuery with db.truncate() outside `if config["purge_db"]`
StartQuery_AlwaysPurge(save, purge, rs, ok) ==
    /\ Begin("query", [save |-> save, purge |-> purge, rs |-> rs])
    /\ store' = <<>>
    /\ began' = [store |-> store', disk |-> disk]
    /\ iter' = <<>>
    /\ idx' = 0
    /\ IF ok
       THEN /\ playwright' = "running"
            /\ browser' = "open"
            /\ next_url' = Some(Origin \o ResultsPath(1))
            /\ pc' = "while"
            /\ error' = "none"
       ELSE /\ playwright' = "stopped"
            /\ browser' = "closed"
            /\ next_url' = None
            /\ pc' = "aborted"
            /\ error' = "navigation"
    /\ UNCHANGED disk

\* lines 288-329: the options, the purge, the browser, the search form and
\* the popup with the first page of results
StartQuery(save, purge, rs, ok) ==
    /\ Begin("query", [save |-> save, purge |-> purge, rs |-> rs])
    /\ store' = IF purge THEN <<>> ELSE store
    /\ began' = [store |-> store', disk |-> disk]
    /\ iter' = <<>>
    /\ idx' = 0
    /\ IF ok
       THEN /\ playwright' = "running"
            /\ browser' = "open"
            /\ next_url' = Some(Origin \o ResultsPath(1))
            /\ pc' = "while"
            /\ error' = "none"
       ELSE /\ playwright' = "stopped"
            /\ browser' = "closed"
            /\ next_url' = None
            /\ pc' = "aborted"
            /\ error' = "navigation"
    /\ UNCHANGED disk

\* lines 332-340: the loop goes to next_url; a navigation error is not
\* caught
QueryGoto(ok) ==
    /\ cmd = "query" /\ pc = "while" /\ next_url # None
    /\ IF ok /\ Fetch(config.rs, next_url[1]) # None
       THEN /\ page' = Fetch(config.rs, next_url[1])
            /\ rowIdx' = 1
            /\ visited' = Append(visited, next_url[1])
            /\ pc' = "rows"
            /\ UNCHANGED <<error, playwright, browser>>
       ELSE /\ Raise("navigation")
            /\ UNCHANGED <<page, rowIdx, visited>>
    /\ UNCHANGED <<store, disk, now, runs, cmd, config, next_url, inserted,
                   updated, loopVars, handleVars, began, found, notFound,
                   calls, prev>>

\* lines 342-395: one row of table_rows
QueryRow ==
    /\ cmd = "query" /\ pc = "rows"
    /\ rowIdx <= Len(TableRows(config.rs, page[1]))
    /\ LET parsed == Parsed[config.rs][page[1]][rowIdx] IN
       CASE parsed.kind = "skip" ->
              /\ rowIdx' = rowIdx + 1
              /\ UNCHANGED <<store, inserted, updated, found, notFound, pc,
                             error, playwright, browser>>
         [] parsed.kind = "raise" ->
              /\ Raise(parsed.error)
              /\ UNCHANGED <<store, inserted, updated, found, notFound,
                             rowIdx>>
         [] parsed.kind = "record" ->
              LET r == Reconcile(store, inserted, updated, parsed.result,
                                 config.save, now)
                  hit == DbSearch(store, parsed.result) # {}
              IN /\ store' = r.db
                 /\ inserted' = r.inserted
                 /\ updated' = r.updated
                 /\ found' = IF hit THEN found + 1 ELSE found
                 /\ notFound' = IF hit THEN notFound ELSE notFound + 1
                 /\ rowIdx' = rowIdx + 1
                 /\ UNCHANGED <<pc, error, playwright, browser>>
    /\ UNCHANGED <<disk, now, runs, cmd, config, next_url, page, loopVars,
                   handleVars, visited, began, calls, prev>>

\* lines 397-401: after the last row, the link to the next page
QueryNext ==
    /\ cmd = "query" /\ pc = "rows"
    /\ rowIdx > Len(TableRows(config.rs, page[1]))
    /\ next_url' = NextUrl(ResultSets[config.rs][page[1]])
    /\ pc' = "while"
    /\ UNCHANGED <<store, disk, now, runs, cmd, error, config, page, rowIdx,
                   inserted, updated, loopVars, playwright, browser,
                   handleVars, visited, began, found, notFound, calls, prev>>

\* lines 403-405: the loop has ended; the counters are printed and the
\* browser is closed
QueryFinish ==
    /\ cmd = "query" /\ pc = "while" /\ next_url = None
    /\ pc' = "done"
    /\ browser' = "closed"
    /\ playwright' = "stopped"
    /\ UNCHANGED <<store, disk, now, runs, cmd, error, config, queryVars,
                   inserted, updated, loopVars, handleVars, visited, began,
                   found, notFound, calls, prev>>

(***************************************************************************)
(* fill_subject (lines 197-253).                                           *)
(***************************************************************************)
\* lines 203-217: the options (save_into_db is declared, and read nowhere),
\* the browser, and the iteration over the documents of the store
StartFill(save) ==
    /\ Begin("fill_subject", [save |-> save, purge |-> FALSE, rs |-> 0])
    /\ began' = [store |-> store, disk |-> disk]
    /\ iter' = store
    /\ idx' = 1
    /\ next_url' = None
    /\ playwright' = "running"
    /\ browser' = "open"
    /\ pc' = "fill"
    /\ error' = "none"
    /\ UNCHANGED <<store, disk>>

\* FillRecord passing over the documents that have a subject_info
FillRecord_SkipEnriched(ok) ==
    /\ cmd = "fill_subject" /\ pc = "fill" /\ idx <= Len(iter)
    /\ LET result == LoadResult(iter[idx])
           detail == FetchDetail(result.subject.url)
       IN IF result.subject_info # None
          THEN /\ idx' = idx + 1
               /\ UNCHANGED <<store, updated, pc, error, playwright, browser>>
          ELSE IF ok /\ detail # None
          THEN /\ store' = DbUpdate(store,
                               [subject_info |-> Some(SubjectInfo(detail[1])),
                                modified |-> TimeStamp(now)],
                               DbSearch(store, result))
               /\ updated' = updated + 1
               /\ idx' = idx + 1
               /\ UNCHANGED <<pc, error, playwright, browser>>
          ELSE /\ Raise("navigation")
               /\ UNCHANGED <<store, updated, idx>>
    /\ UNCHANGED <<disk, now, runs, cmd, config, queryVars, inserted, iter,
                   handleVars, visited, began, found, notFound, calls, prev>>

\* lines 218-251: one document
FillRecord(ok) ==
    /\ cmd = "fill_subject" /\ pc = "fill" /\ idx <= Len(iter)
    /\ LET result == LoadResult(iter[idx])
           detail == FetchDetail(result.subject.url)
       IN IF ok /\ detail # None
          THEN /\ store' = DbUpdate(store,
                               [subject_info |-> Some(SubjectInfo(detail[1])),
                                modified |-> TimeStamp(now)],
                               DbSearch(store, result))
               /\ updated' = updated + 1
               /\ idx' = idx + 1
               /\ UNCHANGED <<pc, error, playwright, browser>>
          ELSE /\ Raise("navigation")
               /\ UNCHANGED <<store, updated, idx>>
    /\ UNCHANGED <<disk, now, runs, cmd, config, queryVars, inserted, iter,
                   handleVars, visited, began, found, notFound, calls, prev>>

\* line 253
FillFinish ==
    /\ cmd = "fill_subject" /\ pc = "fill" /\ idx > Len(iter)
    /\ pc' = "done"
    /\ browser' = "closed"
    /\ playwright' = "stopped"
    /\ UNCHANGED <<store, disk, now, runs, cmd, error, config, queryVars,
                   inserted, updated, loopVars, handleVars, visited, began,
                   found, notFound, calls, prev>>

(***************************************************************************)
(* download_pdfs (lines 147-188) and ocr_pdf_file (lines 40-47).           *)
(***************************************************************************)
DownloadDir == <<"pdfs">>

\* lines 165-172: os.path.join(download_dir, f"{date}-{text[:30]}-{by}" + ext)
AssetFile(result, ext) ==
    DownloadDir \o <<SLASH>> \o Isoformat(result.presented_date) \o <<DASH>>
    \o Take(result.subject.text, PrefixLen) \o <<DASH>>
    \o result.presented_by.text \o <<ext>>

PdfFile(result) == AssetFile(result, ".pdf")

TextFile(result) == AssetFile(result, ".txt")

\* line 162
Eligible(result) ==
    /\ result.subject_info # None
    /\ Len(result.subject_info[1].links) > 0

\* os.path.exists
Exists(path) == path \in DOMAIN disk

\* a file: what its content came from (None while it is empty) and whether
\* the content is all of it
File(src, complete) == [src |-> src, complete |-> complete]

Written(path, file) == (path :> file) @@ disk

\* lines 152-160
StartAssets ==
    /\ Begin("download_pdfs", NoConfig)
    /\ began' = [store |-> store, disk |-> disk]
    /\ iter' = store
    /\ idx' = 1
    /\ next_url' = None
    /\ playwright' = "none"
    /\ browser' = "none"
    /\ pc' = "assets"
    /\ error' = "none"
    /\ UNCHANGED <<store, disk>>

\* AssetsRecord asking for the last link of the detail page
AssetsRecord_LastLink(ok) ==
    /\ cmd = "download_pdfs" /\ pc = "assets" /\ idx <= Len(iter)
    /\ IF Eligible(LoadResult(iter[idx]))
       THEN /\ LET links == LoadResult(iter[idx]).subject_info[1].links IN
               calls' = [calls EXCEPT !.network = @ + 1,
                                      !.urls = Append(@, links[Len(links)])]
            /\ IF ok
               THEN /\ resp' = resp + 1
                    /\ pc' = "pdf"
                    /\ UNCHANGED <<error, playwright, browser>>
               ELSE /\ Raise("download")
                    /\ UNCHANGED resp
            /\ UNCHANGED idx
       ELSE /\ idx' = idx + 1
            /\ UNCHANGED <<calls, resp, pc, error, playwright, browser>>
    /\ UNCHANGED <<store, disk, now, runs, cmd, config, queryVars, inserted,
                   updated, iter, fds, tmpdir, visited, began, found,
                   notFound, prev>>

\* lines 161-164: the next document; requests.get(links[0]) for an eligible
\* one
AssetsRecord(ok) ==
    /\ cmd = "download_pdfs" /\ pc = "assets" /\ idx <= Len(iter)
    /\ IF Eligible(LoadResult(iter[idx]))
       THEN /\ LET links == LoadResult(iter[idx]).subject_info[1].links IN
               calls' = [calls EXCEPT !.network = @ + 1,
                                      !.urls = Append(@, links[1])]
            /\ IF ok
               THEN /\ resp' = resp + 1
                    /\ pc' = "pdf"
                    /\ UNCHANGED <<error, playwright, browser>>
               ELSE /\ Raise("download")
                    /\ UNCHANGED resp
            /\ UNCHANGED idx
       ELSE /\ idx' = idx + 1
            /\ UNCHANGED <<calls, resp, pc, error, playwright, browser>>
    /\ UNCHANGED <<store, disk, now, runs, cmd, config, queryVars, inserted,
                   updated, iter, fds, tmpdir, visited, began, found,
                   notFound, prev>>

\* AssetsOpenPdf without the test of line 173: the file is opened for
\* writing, and so truncated, whether it exists or not
AssetsOpenPdf_Always ==
    /\ cmd = "download_pdfs" /\ pc = "pdf"
    /\ disk' = Written(PdfFile(LoadResult(iter[idx])), File(None, FALSE))
    /\ fds' = fds + 1
    /\ pc' = "stream"
    /\ UNCHANGED <<store, now, runs, cmd, error, config, queryVars, inserted,
                   updated, loopVars, playwright, browser, resp, tmpdir,
                   visited, began, found, notFound, calls, prev>>

\* lines 173-174: the pdf file is opened for writing unless it exists
AssetsOpenPdf ==
    /\ cmd = "download_pdfs" /\ pc = "pdf"
    /\ IF ~Exists(PdfFile(LoadResult(iter[idx])))
       THEN /\ disk' = Written(PdfFile(LoadResult(iter[idx])), File(None, FALSE))
            /\ fds' = fds + 1
            /\ pc' = "stream"
       ELSE /\ pc' = "txt"
            /\ UNCHANGED <<disk, fds>>
    /\ UNCHANGED <<store, now, runs, cmd, error, config, queryVars, inserted,
                   updated, loopVars, playwright, browser, resp, tmpdir,
                   visited, began, found, notFound, calls, prev>>

\* lines 175-176: the body is written chunk by chunk; the file is closed
\* when the `with` block is left, also by an exception.  The response is
\* done with when its body has been read to the end, and also when reading
\* it fails (the connection is closed under the exception)
AssetsStream(ok) ==
    /\ cmd = "download_pdfs" /\ pc = "stream"
    /\ LET result == LoadResult(iter[idx])
           url == result.subject_info[1].links[1]
       IN /\ disk' = Written(PdfFile(result), File(Some(url), ok))
          /\ fds' = fds - 1
          /\ resp' = resp - 1
          /\ IF ok
             THEN /\ pc' = "txt"
                  /\ UNCHANGED <<error, playwright, browser>>
             ELSE Raise("download")
    /\ UNCHANGED <<store, now, runs, cmd, config, queryVars, inserted,
                   updated, loopVars, tmpdir, visited, began, found,
                   notFound, calls, prev>>

\* lines 177-178 and 41-42: unless the text file exists, it is opened for
\* writing and the temporary directory is made
AssetsOpenText ==
    /\ cmd = "download_pdfs" /\ pc = "txt"
    /\ IF ~Exists(TextFile(LoadResult(iter[idx])))
       THEN /\ disk' = Written(TextFile(LoadResult(iter[idx])), File(None, FALSE))
            /\ fds' = fds + 1
            /\ tmpdir' = TRUE
            /\ pc' = "ocr"
       ELSE /\ pc' = "update"
            /\ UNCHANGED <<disk, fds, tmpdir>>
    /\ UNCHANGED <<store, now, runs, cmd, error, config, queryVars, inserted,
                   updated, loopVars, playwright, browser, resp, visited,
                   began, found, notFound, calls, prev>>

\* lines 43-47: the pages of the pdf file become images and the images
\* text; both `with` blocks are left, also by an exception.  The text is
\* all of the document only when the pdf file is
AssetsOcr(ok) ==
    /\ cmd = "download_pdfs" /\ pc = "ocr"
    /\ LET result == LoadResult(iter[idx])
           pdf == disk[PdfFile(result)]
       IN /\ calls' = [calls EXCEPT !.ocr = @ + 1]
          /\ tmpdir' = FALSE
          /\ fds' = fds - 1
          /\ IF ok
             THEN /\ disk' = Written(TextFile(result),
                                     File(pdf.src, pdf.complete))
                  /\ pc' = "update"
                  /\ UNCHANGED <<error, playwright, browser>>
             ELSE /\ Raise("ocr")
                  /\ UNCHANGED disk
    /\ UNCHANGED <<store, now, runs, cmd, config, queryVars, inserted,
                   updated, loopVars, resp, visited, began, found, notFound,
                   prev>>

\* AssetsUpdate without doc_ids: db.update then writes every document
AssetsUpdate_AllDocs ==
    /\ cmd = "download_pdfs" /\ pc = "update"
    /\ LET result == LoadResult(iter[idx]) IN
       store' = DbUpdate(store,
                    [pdf_url |-> Some(result.subject_info[1].links[1]),
                     pdf_filename |-> Some(PdfFile(result)),
                     text_filename |-> Some(TextFile(result)),
                     modified |-> TimeStamp(now)],
                    1..Len(store))
    /\ idx' = idx + 1
    /\ pc' = "assets"
    /\ UNCHANGED <<disk, now, runs, cmd, error, config, queryVars, inserted,
                   updated, iter, playwright, browser, handleVars, visited,
                   began, found, notFound, calls, prev>>

\* lines 179-188: the update of the document with the doc_id of r
AssetsUpdate ==
    /\ cmd = "download_pdfs" /\ pc = "update"
    /\ LET result == LoadResult(iter[idx]) IN
       store' = DbUpdate(store,
                    [pdf_url |-> Some(result.subject_info[1].links[1]),
                     pdf_filename |-> Some(PdfFile(result)),
                     text_filename |-> Some(TextFile(result)),
                     modified |-> TimeStamp(now)],
                    {i \in 1..Len(store) : store[i].doc_id = iter[idx].doc_id})
    /\ idx' = idx + 1
    /\ pc' = "assets"
    /\ UNCHANGED <<disk, now, runs, cmd, error, config, queryVars, inserted,
                   updated, iter, playwright, browser, handleVars, visited,
                   began, found, notFound, calls, prev>>

\* the loop has ended
AssetsFinish ==
    /\ cmd = "download_pdfs" /\ pc = "assets" /\ idx > Len(iter)
    /\ pc' = "done"
    /\ UNCHANGED <<store, disk, now, runs, cmd, error, config, queryVars,
                   inserted, updated, loopVars, playwright, browser,
                   handleVars, visited, began, found, notFound, calls, prev>>

Next ==
    \/ \E save \in BOOLEAN, purge \in BOOLEAN, rs \in 1..Len(ResultSets),
          ok \in BOOLEAN : StartQuery(save, purge, rs, ok)
    \/ \E ok \in BOOLEAN : QueryGoto(ok)
    \/ QueryRow
    \/ QueryNext
    \/ QueryFinish
    \/ \E save \in BOOLEAN : StartFill(save)
    \/ \E ok \in BOOLEAN : FillRecord(ok)
    \/ FillFinish
    \/ StartAssets
    \/ \E ok \in BOOLEAN : AssetsRecord(ok)
    \/ AssetsOpenPdf
    \/ \E ok \in BOOLEAN : AssetsStream(ok)
    \/ AssetsOpenText
    \/ \E ok \in BOOLEAN : AssetsOcr(ok)
    \/ AssetsUpdate
    \/ AssetsFinish

Spec == Init /\ [][Next]_vars

\* a step of the loop of query
QueryStep ==
    \/ \E ok \in BOOLEAN : QueryGoto(ok)
    \/ QueryRow
    \/ QueryNext
    \/ QueryFinish

\* the program is one thread that runs on until it ends or an exception
\* ends it: a query that can take a step takes it
FairSpec == Spec /\ WF_vars(QueryStep)

(***************************************************************************)
(* Properties.                                                             *)
(***************************************************************************)
SameKey(a, b) ==
    /\ a.subject.text = b.subject.text
    /\ a.presented_date = b.presented_date
    /\ a.presented_by.text = b.presented_by.text

\* the row the loop of query is at, parsed
RowAt == Parsed[config.rs][page[1]][rowIdx]

\* the loop of query is at a row that parses to a record
AtRecord ==
    /\ cmd = "query" /\ pc = "rows"
    /\ rowIdx <= Len(TableRows(config.rs, page[1]))
    /\ RowAt.kind = "record"

\* C1: natural-key uniqueness.  The store starts empty; in every state that
\* query runs (saving or not, purging or not, over pages that repeat a row
\* within a page and across pages), fill_subject passes and download_pdfs
\* passes lead to, no two documents of the store have the same
\* (subject.text, presented_date, presented_by.text).
C1_NaturalKeyUnique ==
    \A i, j \in 1..Len(store) : i # j => ~SameKey(store[i], store[j])

\* a saving crawl of the result set that repeats a row has ended, it found
\* three of its rows in the store, and the store holds two documents, one
\* of them already given its files by download_pdfs
C1_Witness ==
    /\ cmd = "query" /\ pc = "done" /\ config.save /\ config.rs = 2
    /\ found = 3 /\ Len(store) = 2
    /\ \E i \in 1..Len(store) : store[i].pdf_filename # None

\* C2: a step of the reconciler, saving enabled, on a record whose key is in
\* the store leaves the number of documents as it is, changes status and
\* modified of the matching documents (to the status of the record and to
\* the current time) and nothing else: every other field of a matching
\* document and every other document stay as they are.
C2_UpdateOnlyStatusAndModified ==
    [][(AtRecord /\ config.save /\ DbSearch(store, RowAt.result) # {}
        /\ rowIdx' = rowIdx + 1)
       => /\ Len(store') = Len(store)
          /\ \A i \in 1..Len(store) :
               IF SameKey(store[i], Serialize(RowAt.result, now))
               THEN /\ \A f \in DOMAIN store[i] \ {"status", "modified"} :
                          store'[i][f] = store[i][f]
                    /\ store'[i].status = RowAt.result.status
                    /\ store'[i].modified = TimeStamp(now)
               ELSE store'[i] = store[i]]_vars

\* a saving crawl has updated a document made by an earlier command: its
\* status is another one than Pendiente, which every row is first seen with,
\* and another document was inserted since
C2_Witness ==
    /\ cmd = "query" /\ config.save /\ updated > 0 /\ Len(store) >= 2
    /\ \E i \in 1..Len(store) :
          /\ store[i].created < store[i].modified
          /\ store[i].status.text = Aprobada
          /\ store[i].pdf_filename # None

\* C3: at the end of a query run with saving disabled, inserted is the
\* number of records whose key was not in the store and updated the number
\* of those whose key was.
C3_DryRunCounters ==
    (cmd = "query" /\ pc = "done" /\ ~config.save)
    => (inserted = notFound /\ updated = found)

\* C4: a query run with saving disabled and no purge leaves the store as it
\* was when the run began, in every state of the run and at its end.
C4_DryRunWritesNothing ==
    (cmd = "query" /\ ~config.save /\ ~config.purge) => store = began.store

\* a dry run over a non-empty store has ended; it met a record whose key is
\* in the store and one whose key is not
C4_Witness ==
    /\ cmd = "query" /\ ~config.save /\ ~config.purge /\ pc = "done"
    /\ found > 0 /\ notFound > 0 /\ store # <<>>

\* a stored document is one download_pdfs works on (line 162)
EligibleDoc(doc) ==
    doc.subject_info # None /\ Len(doc.subject_info[1].links) > 0

\* the file names of a stored document, from its stored fields
ExpectedFile(doc, ext) ==
    <<"pdfs", "/">> \o doc.presented_date \o <<"-">>
    \o Take(doc.subject.text, PrefixLen) \o <<"-">> \o doc.presented_by.text
    \o <<ext>>

\* C5: a download_pdfs pass over a store in which both files of every
\* eligible document were on disk when the pass began makes no network
\* request and no OCR conversion.
C5_NoCallsWhenFilesExist ==
    (/\ cmd = "download_pdfs"
     /\ \A i \in 1..Len(iter) :
           EligibleDoc(iter[i])
           => /\ ExpectedFile(iter[i], ".pdf") \in DOMAIN began.disk
              /\ ExpectedFile(iter[i], ".txt") \in DOMAIN began.disk)
    => (calls.network = 0 /\ calls.ocr = 0)

\* C6: the update that ends the work of download_pdfs on an eligible
\* document gives the document with the doc_id of that document pdf_url =
\* subject_info.links[0], the two derived file names and the current time as
\* modified, leaves its other fields and every other document as they are,
\* and both files are on disk then; this is so whether the pass made the
\* files or found them.  When the pass has ended, every eligible document
\* carries these fields.
C6_AssetFieldsSet ==
    /\ [][(cmd = "download_pdfs" /\ pc = "update" /\ pc' = "assets")
          => /\ Len(store') = Len(store)
             /\ \E i \in 1..Len(store) : store[i].doc_id = iter[idx].doc_id
             /\ \A i \in 1..Len(store) :
                  IF store[i].doc_id = iter[idx].doc_id
                  THEN /\ EligibleDoc(store[i])
                       /\ store'[i].pdf_url =
                              Some(store[i].subject_info[1].links[1])
                       /\ store'[i].pdf_filename =
                              Some(ExpectedFile(store[i], ".pdf"))
                       /\ store'[i].text_filename =
                              Some(ExpectedFile(store[i], ".txt"))
                       /\ store'[i].modified = TimeStamp(now)
                       /\ ExpectedFile(store[i], ".pdf") \in DOMAIN disk
                       /\ ExpectedFile(store[i], ".txt") \in DOMAIN disk
                       /\ \A f \in DOMAIN store[i] \
                              {"pdf_url", "pdf_filename", "text_filename",
                               "modified"} : store'[i][f] = store[i][f]
                  ELSE store'[i] = store[i]]_vars
    /\ [](cmd = "download_pdfs" /\ pc = "done"
          => \A i \in 1..Len(store) :
                EligibleDoc(store[i])
                => /\ store[i].pdf_url = Some(store[i].subject_info[1].links[1])
                   /\ store[i].pdf_filename = Some(ExpectedFile(store[i], ".pdf"))
                   /\ store[i].text_filename = Some(ExpectedFile(store[i], ".txt"))
                   /\ store[i].modified = TimeStamp(now))

\* a pass that found both files of a document on disk (it made no OCR
\* conversion) has updated that document, in a store of two documents of
\* which the other is not touched by the pass
C6_Witness ==
    /\ cmd = "download_pdfs" /\ pc = "assets" /\ idx > 1
    /\ calls.ocr = 0 /\ Len(store) >= 2
    /\ \E i \in 1..Len(store) :
          /\ store[i].pdf_filename # None
          /\ store[i].modified = TimeStamp(now)
          /\ store[i].pdf_filename[1] \in DOMAIN began.disk
    /\ \E i \in 1..Len(store) : store[i].modified < TimeStamp(now)

\* the records of rows i.. of page k of a result set, in row order
RECURSIVE PageRecords(_, _, _)
PageRecords(rs, k, i) ==
    IF i > Len(TableRows(rs, k)) THEN <<>>
    ELSE (IF Parsed[rs][k][i].kind = "record"
          THEN <<Parsed[rs][k][i].result>> ELSE <<>>)
         \o PageRecords(rs, k, i + 1)

\* the records of pages 1..n of a result set, in page and row order
RECURSIVE RecordsUpTo(_, _)
RecordsUpTo(rs, n) ==
    IF n = 0 THEN <<>> ELSE RecordsUpTo(rs, n - 1) \o PageRecords(rs, n, 1)

SameResultKey(a, b) ==
    /\ a.subject.text = b.subject.text
    /\ a.presented_date = b.presented_date
    /\ a.presented_by.text = b.presented_by.text

\* every row of twelve cells of the result set parses, and no two of its
\* records have the same key
DistinctKeys(rs) ==
    LET recs == RecordsUpTo(rs, Len(ResultSets[rs])) IN
    /\ \A k \in 1..Len(ResultSets[rs]) : \A i \in 1..Len(TableRows(rs, k)) :
          Parsed[rs][k][i].kind # "raise"
    /\ \A i, j \in 1..Len(recs) : i # j => ~SameResultKey(recs[i], recs[j])

NRecords(rs) == Len(RecordsUpTo(rs, Len(ResultSets[rs])))

\* the command before this one was a saving crawl of the same result set
\* that began with an empty store and ran to its end
SecondCrawl ==
    /\ ~config.purge
    /\ prev.cmd = "query" /\ prev.pc = "done" /\ prev.config.save
    /\ prev.config.rs = config.rs /\ prev.fromEmpty

\* C7: a saving crawl, run to its end, of a result set of N records with
\* pairwise distinct keys: from an empty store it ends with inserted = N,
\* updated = 0 and N documents; run again right after such a crawl, over
\* the same result set, it ends with inserted = 0, updated = N and N
\* documents (no status has changed between the two).
C7_TwoCrawls ==
    (cmd = "query" /\ pc = "done" /\ config.save /\ DistinctKeys(config.rs))
    => /\ began.store = <<>>
          => /\ inserted = NRecords(config.rs) /\ updated = 0
             /\ Len(store) = NRecords(config.rs)
       /\ SecondCrawl
          => /\ inserted = 0 /\ updated = NRecords(config.rs)
             /\ Len(store) = NRecords(config.rs)

\* the second of two such crawls has ended: two updates, and the status of
\* every document is as the first crawl stored it
C7_Witness ==
    /\ cmd = "query" /\ pc = "done" /\ config.save /\ DistinctKeys(config.rs)
    /\ SecondCrawl /\ updated = 2 /\ NRecords(config.rs) = 2
    /\ \A i \in 1..Len(store) :
          store[i].status.text = Pendiente /\ store[i].created < store[i].modified

\* C8: when a saving query run is aborted by a navigation error on its way
\* to page k, the store holds, for every record of pages 1..k-1, a document
\* with the key of the record, written in this run, whose status is that of
\* the last record of pages 1..k-1 with this key.
C8_PartialProgressDurable ==
    (cmd = "query" /\ pc = "aborted" /\ error = "navigation" /\ config.save)
    => LET recs == RecordsUpTo(config.rs, Len(visited)) IN
       \A j \in 1..Len(recs) :
          \E i \in 1..Len(store) :
             /\ SameKey(store[i], Serialize(recs[j], now))
             /\ store[i].modified = TimeStamp(now)
             /\ \E l \in j..Len(recs) :
                   /\ SameResultKey(recs[l], recs[j])
                   /\ \A m \in (l + 1)..Len(recs) :
                         ~SameResultKey(recs[m], recs[j])
                   /\ store[i].status = recs[l].status

\* a saving run that inserted a document and updated another was aborted by
\* a navigation error after its first page
C8_Witness ==
    /\ cmd = "query" /\ pc = "aborted" /\ error = "navigation" /\ config.save
    /\ Len(visited) = 1 /\ inserted > 0 /\ updated > 0

\* the urls of pages 1..n of a result set
ChainUrls(n) == [k \in 1..n |-> Origin \o ResultsPath(k)]

QueryRunning == cmd = "query" /\ pc \in {"while", "rows"}

\* C9 as claimed: a query run that met no navigation error ends having
\* gone to every page of the chain, once each and in order, and having
\* printed its counters.
C9_CompletesUnlessNavigationFails ==
    (cmd = "query" /\ pc \in {"done", "aborted"} /\ error # "navigation")
    => /\ pc = "done"
       /\ visited = ChainUrls(Len(ResultSets[config.rs]))

\* C9, amended: the loop of query goes to the pages of the chain in order
\* and to none twice; when it looks for the link to the next page, and when
\* it has ended, every record of the pages it went to has been reconciled;
\* it ends, and it ends having gone to all n pages and having printed its
\* counters unless a navigation error or a row that does not parse (its
\* date or its number) aborts it.
C9_PaginationCompletes ==
    /\ [](cmd = "query" /\ pc \in {"while", "rows", "done"}
          => /\ Len(visited) <= Len(ResultSets[config.rs])
             /\ visited = ChainUrls(Len(visited)))
    /\ [](cmd = "query" /\ pc \in {"while", "done"}
          => found + notFound = Len(RecordsUpTo(config.rs, Len(visited))))
    /\ [](cmd = "query" /\ pc = "done"
          => /\ next_url = None
             /\ Len(visited) = Len(ResultSets[config.rs]))
    /\ QueryRunning
       ~> \/ cmd = "query" /\ pc = "done"
          \/ /\ cmd = "query" /\ pc = "aborted"
             /\ error \in {"navigation", "ValueError", "ValidationError"}

\* a crawl of a chain of two pages has ended: both pages, with a layout row
\* and a record on the first and a record on the second
C9_Witness ==
    /\ cmd = "query" /\ pc = "done" /\ Len(visited) = 2
    /\ found + notFound = 2 /\ config.rs = 1

\* C10: when a command has ended, by its end or by an exception, the
\* browser is closed, the temporary directory is removed, and no file
\* handle and no response of requests.get is left open.
C10_ResourcesReleased ==
    pc \in {"done", "aborted"}
    => /\ browser # "open" /\ playwright # "running"
       /\ ~tmpdir
       /\ fds = 0
       /\ resp = 0

\* C11: skip-if-exists.  A file that was on disk when a command began is on
\* disk with the same content in every state of that command: no pass of
\* download_pdfs opens an existing pdf path or text path for writing, also
\* when the file is empty or incomplete and the response of this pass
\* carries the whole document; query and fill_subject write no file.
C11_ExistingFilesUntouched ==
    \A p \in DOMAIN began.disk : p \in DOMAIN disk /\ disk[p] = began.disk[p]

\* a pass of download_pdfs that made a request and an OCR conversion has
\* ended, and a pdf file an earlier pass left incomplete is still incomplete
C11_Witness ==
    /\ cmd = "download_pdfs" /\ pc = "done"
    /\ calls.network > 0 /\ calls.ocr > 0
    /\ \E i \in 1..Len(store) :
          /\ store[i].pdf_filename # None
          /\ store[i].pdf_filename[1] \in DOMAIN began.disk
          /\ ~began.disk[store[i].pdf_filename[1]].complete
          /\ began.disk[store[i].pdf_filename[1]].src # None

\* the loop of query is at a row of table_rows
AtRow ==
    /\ cmd = "query" /\ pc = "rows"
    /\ rowIdx <= Len(TableRows(config.rs, page[1]))

\* the tddatos cells of that row
RawRow == TableRows(config.rs, page[1])[rowIdx]

\* the records of rows 1..i of page k of a result set, in row order
RECURSIVE PageRecordsTo(_, _, _)
PageRecordsTo(rs, k, i) ==
    IF i = 0 THEN <<>>
    ELSE PageRecordsTo(rs, k, i - 1)
         \o (IF Parsed[rs][k][i].kind = "record"
             THEN <<Parsed[rs][k][i].result>> ELSE <<>>)

\* the records of the rows before row i of page k, all earlier pages
\* included
RecordsBefore(rs, k, i) == RecordsUpTo(rs, k - 1) \o PageRecordsTo(rs, k, i - 1)

\* C12: a date that does not parse is fatal.  At a row of twelve cells whose
\* column-5 text is not a DD/MM/YYYY date, the step of the loop ends the run
\* with the ValueError of strptime and leaves the store and the counters as
\* they are; the run does nothing more (the next step is the start of
\* another command); in the aborted state exactly the records of the rows
\* before that row have been reconciled, and with saving enabled each of
\* them has its document in the store, written in this run.
C12_DateFailureIsFatal ==
    /\ [][(/\ AtRow /\ Len(RawRow) = RowWidth
            /\ Strptime(CellText(RawRow[DateColumn + 1].nodes)) = None)
          => /\ pc' = "aborted" /\ error' = "ValueError"
             /\ store' = store
             /\ inserted' = inserted /\ updated' = updated
             /\ found' = found /\ notFound' = notFound
             /\ visited' = visited /\ rowIdx' = rowIdx]_vars
    /\ [][(cmd = "query" /\ pc = "aborted") => runs' = runs + 1]_vars
    /\ [](cmd = "query" /\ pc = "aborted" /\ error = "ValueError"
          => LET recs == RecordsBefore(config.rs, page[1], rowIdx) IN
             /\ found + notFound = Len(recs)
             /\ config.save
                => /\ inserted + updated = Len(recs)
                   /\ Len(store) = Len(began.store) + inserted
                   /\ \A j \in 1..Len(recs) :
                         \E i \in 1..Len(store) :
                            /\ SameKey(store[i], Serialize(recs[j], now))
                            /\ store[i].modified = TimeStamp(now))

\* a saving run from an empty store was ended by the row with the date
\* 31/02/2021: the store holds the record of the row before it and nothing
\* of the row after it or of the second page
C12_Witness ==
    /\ cmd = "query" /\ pc = "aborted" /\ error = "ValueError"
    /\ config.save /\ began.store = <<>>
    /\ Len(store) = 1 /\ inserted = 1 /\ Len(visited) = 1 /\ rowIdx = 2
    /\ store[1].subject.text = <<"L", SP, "e", "y">>

\* C13: the row-shape filter.  At a row whose number of tddatos cells is
\* not twelve (fewer or more), the step of the loop yields no record and
\* raises nothing: the store, the counters and the count of records met stay
\* as they are, and the loop is at the next row of the same page.
C13_RowShapeFilter ==
    [][(AtRow /\ Len(RawRow) # RowWidth)
       => /\ store' = store
          /\ inserted' = inserted /\ updated' = updated
          /\ found' = found /\ notFound' = notFound
          /\ pc' = "rows" /\ error' = error
          /\ page' = page /\ rowIdx' = rowIdx + 1]_vars

\* a saving run has passed the row of one cell on the first page (the
\* record after it is stored) and the row of thirteen cells on the second,
\* and is at the record after that
C13_Witness ==
    /\ AtRow /\ config.save /\ config.rs = 1 /\ page = Some(2) /\ rowIdx = 2
    /\ Len(RawRow) = RowWidth /\ inserted + updated = 1
    /\ Len(TableRows(1, 2)[1]) > RowWidth /\ Len(TableRows(1, 1)[1]) < RowWidth

\* a handler is a call of window.open or of mUtil.winLeft whose first
\* argument is the quoted text arg
CallsWith(h, arg) ==
    /\ arg # <<>>
    /\ \A j \in 1..Len(arg) : arg[j] # QUOTE
    /\ Len(h) >= Len(arg) + 4
    /\ h[1] \in {"window.open", "mUtil.winLeft"}
    /\ SubSeq(h, 2, Len(arg) + 4) = <<LPAREN, QUOTE>> \o arg \o <<QUOTE>>

\* the url of a link field is right for the onclick attribute of its cell
UrlFor(onclick, url) ==
    IF onclick = None
       \/ ~ \E n \in 1..(Len(onclick[1]) - 4) :
               CallsWith(onclick[1], SubSeq(onclick[1], 4, 3 + n))
    THEN url = <<>>
    ELSE /\ Len(url) > Len(Origin)
         /\ SubSeq(url, 1, Len(Origin)) = Origin
         /\ CallsWith(onclick[1], SubSeq(url, Len(Origin) + 1, Len(url)))

\* C14: at a row of twelve cells with a well-formed date (and a number in
\* its num cell) the row parser yields a record, whatever the handlers of
\* its cells are, and the url of each of subject, presented_by, turn_to and
\* status is empty when the cell has no onclick handler or one that is
\* neither a window.open("...") nor a mUtil.winLeft("...") call, and else the
\* portal origin followed by the first quoted argument of the call; the
\* text of the field is the text of the cell.
C14_LinkUrls ==
    (/\ AtRow /\ Len(RawRow) = RowWidth
     /\ Strptime(CellText(RawRow[DateColumn + 1].nodes)) # None
     /\ AllDigits(CellText(RawRow[1].nodes)))
    => /\ RowAt.kind = "record"
       /\ \A i \in LinkColumns :
             /\ UrlFor(RawRow[i + 1].onclick, RowAt.result[row_keys[i + 1]].url)
             /\ RowAt.result[row_keys[i + 1]].text = CellText(RawRow[i + 1].nodes)

\* the loop is at a row with all three kinds of cell: the handlers of
\* subject and status are window.open calls, that of presented_by is a
\* mUtil.winLeft call, that of turn_to is neither; and a row whose status
\* cell has no handler was reconciled before it
C14_Witness ==
    /\ AtRecord /\ rowIdx = 2
    /\ RawRow[3].onclick = WindowOpen(DetailPath("1"))
    /\ RowAt.result.subject.url = Origin \o DetailPath("1")
    /\ RowAt.result.presented_by.url
          = Origin \o <<"/Librerias/pp_PerfilLegislador.php">>
    /\ RawRow[10].onclick = OtherHandler /\ RowAt.result.turn_to.url = <<>>
    /\ RowAt.result.status.url = Origin \o <<"/Librerias/pp_Estatus.php">>
    /\ TableRows(config.rs, page[1])[1][11].onclick = None
    /\ \E i \in 1..Len(store) : store[i].status.url = <<>>

\* the step is the start of a query run with the purge switch
PurgeStep == runs' = runs + 1 /\ cmd' = "query" /\ config'.purge

\* C15: records are deleted by purge only.  A step that is not the start of
\* a query run with the purge switch (a step of a query run, of a
\* fill_subject pass or of a download_pdfs pass, or the start of one
\* without the switch) keeps every document of the store at its place with
\* its doc_id and its key; only later documents are added.  The start of a
\* query run with the switch leaves the store empty, before the browser is
\* launched and whether or not the launch and the search succeed.
C15_DeletedOnlyByPurge ==
    [][IF PurgeStep
       THEN store' = <<>>
       ELSE /\ Len(store') >= Len(store)
            /\ \A i \in 1..Len(store) :
                  /\ store'[i].doc_id = store[i].doc_id
                  /\ SameKey(store'[i], store[i])]_vars

\* a saving query run without the switch has ended over a store that held
\* documents, enriched and given their files by earlier passes: it added a
\* document and the earlier ones are there
C15_Witness ==
    /\ cmd = "query" /\ pc = "done" /\ ~config.purge /\ config.save
    /\ began.store # <<>> /\ inserted > 0
    /\ Len(store) = Len(began.store) + inserted
    /\ \E i \in 1..Len(began.store) :
          /\ store[i].pdf_filename # None
          /\ SameKey(store[i], began.store[i])

\* C16: eligibility.  The step of a download_pdfs pass at a document with
\* no subject_info or with an empty links list goes on to the next document
\* and does nothing else: no request, no OCR conversion, no file, no change
\* of the store.  A request of the pass is made at an eligible document and
\* asks for links[0] of that document; the pass makes no other request.
\* When the pass has ended, every document that is not eligible is as it
\* was when the pass began.
C16_Eligibility ==
    /\ [][(/\ cmd = "download_pdfs" /\ pc = "assets" /\ idx <= Len(iter)
            /\ ~EligibleDoc(iter[idx]))
          => /\ idx' = idx + 1 /\ pc' = "assets"
             /\ calls' = calls /\ disk' = disk /\ store' = store
             /\ resp' = resp /\ fds' = fds]_vars
    /\ [][(cmd = "download_pdfs" /\ cmd' = "download_pdfs" /\ runs' = runs
            /\ calls'.urls # calls.urls)
          => /\ pc = "assets" /\ EligibleDoc(iter[idx])
             /\ calls'.urls
                  = Append(calls.urls, iter[idx].subject_info[1].links[1])]_vars
    /\ [](cmd = "download_pdfs" => Len(calls.urls) = calls.network)
    /\ [](cmd = "download_pdfs" /\ pc = "done"
          => \A i \in 1..Len(store) :
                ~EligibleDoc(store[i]) => store[i] = began.store[i])

\* a pass has ended over a store of three enriched documents, one whose
\* detail page has one link, one whose detail page has none and one whose
\* detail page has two: it made two requests, and the document without a
\* link is as fill_subject left it
C16_Witness ==
    /\ cmd = "download_pdfs" /\ pc = "done"
    /\ calls.urls = <<PdfUrl("1"), PdfUrl("2")>>
    /\ \E i \in 1..Len(store) :
          /\ store[i].subject_info # None
          /\ store[i].subject_info[1].links = <<>>
          /\ store[i].pdf_filename = None
          /\ store[i].modified < TimeStamp(now)
    /\ \E i \in 1..Len(store) :
          /\ store[i].subject_info # None
          /\ Len(store[i].subject_info[1].links) = 2
          /\ store[i].pdf_url = Some(PdfUrl("2"))

\* the detail page of a stored document
DetailOf(doc) == FetchDetail(doc.subject.url)[1]

\* the mapping and the links of a detail page, as the page shows them: the
\* first tdcriterio cell is a heading, the others name the tddatos cells in
\* order
Scraped(detail) ==
    [fields |-> [k \in {KeyText(detail.keys[i + 1]) :
                          i \in 1..(Len(detail.keys) - 1)} |->
                    ValueText(detail.values[
                        CHOOSE i \in 1..(Len(detail.keys) - 1) :
                            KeyText(detail.keys[i + 1]) = k])],
     links |-> detail.links]

\* C17: the detail pass.  A step of fill_subject at a document gives the
\* document of the store with that key the mapping and the links of its
\* detail page as subject_info and the current time as modified, and leaves
\* its other fields and every other document as they are, whether or not
\* the document had a subject_info.  A pass that has run to its end has
\* done so for every document of the store: each carries the subject_info
\* of its page and the time of the pass, and the counter is the number of
\* documents.  A pass run right after a pass that ran to its end leaves
\* every subject_info as it found it.
C17_DetailPass ==
    /\ [][(cmd = "fill_subject" /\ pc = "fill" /\ idx' = idx + 1)
          => /\ Len(store') = Len(store)
             /\ \E i \in 1..Len(store) : SameKey(store[i], iter[idx])
             /\ \A i \in 1..Len(store) :
                  IF SameKey(store[i], iter[idx])
                  THEN /\ store'[i].subject_info = Some(Scraped(DetailOf(store[i])))
                       /\ store'[i].modified = TimeStamp(now)
                       /\ \A f \in DOMAIN store[i] \ {"subject_info", "modified"} :
                             store'[i][f] = store[i][f]
                  ELSE store'[i] = store[i]]_vars
    /\ [](cmd = "fill_subject" /\ pc = "done"
          => /\ Len(store) = Len(began.store)
             /\ updated = Len(store)
             /\ \A i \in 1..Len(store) :
                   /\ store[i].subject_info = Some(Scraped(DetailOf(store[i])))
                   /\ store[i].modified = TimeStamp(now)
                   /\ \A f \in DOMAIN store[i] \ {"subject_info", "modified"} :
                         store[i][f] = began.store[i][f])
    /\ [](/\ cmd = "fill_subject" /\ pc = "done"
           /\ prev.cmd = "fill_subject" /\ prev.pc = "done"
          => \A i \in 1..Len(store) :
                store[i].subject_info = began.store[i].subject_info)

\* the second of two passes in a row has ended over a store of two
\* documents, both enriched and stamped by it, one with the two links of its
\* page
C17_Witness ==
    /\ cmd = "fill_subject" /\ pc = "done"
    /\ prev.cmd = "fill_subject" /\ prev.pc = "done"
    /\ Len(store) = 2 /\ updated = 2
    /\ \A i \in 1..Len(store) :
          /\ began.store[i].subject_info # None
          /\ began.store[i].modified < store[i].modified
    /\ \E i \in 1..Len(store) :
          /\ store[i].subject_info[1].links = <<PdfUrl("2"), PdfUrl("1")>>
          /\ DOMAIN store[i].subject_info[1].fields = {<<"T", "i", "p", "o">>}

\* C18: asset paths identify records.  No two documents of the store (they
\* have different keys) carry the same pdf_filename or the same
\* text_filename, and the content of the file at the pdf_filename of a
\* document came from the pdf_url of that document.
C18_AssetPathsIdentifyRecords ==
    /\ \A i, j \in 1..Len(store) :
          (i # j /\ store[i].pdf_filename # None /\ store[j].pdf_filename # None)
          => /\ store[i].pdf_filename # store[j].pdf_filename
             /\ store[i].text_filename # store[j].text_filename
    /\ \A i \in 1..Len(store) :
          (store[i].pdf_filename # None /\ Terminal)
          => /\ store[i].pdf_filename[1] \in DOMAIN disk
             /\ disk[store[i].pdf_filename[1]].src = store[i].pdf_url

\* C19: re-running heals.  When a download_pdfs pass has run to its end,
\* after whatever passes came before it, the text file of every document
\* the pass worked on holds the text of all of a pdf file that was
\* downloaded in full.
C19_RerunHeals ==
    (cmd = "download_pdfs" /\ pc = "done")
    => \A i \in 1..Len(store) :
          EligibleDoc(store[i])
          => /\ ExpectedFile(store[i], ".txt") \in DOMAIN disk
             /\ disk[ExpectedFile(store[i], ".txt")].src # None
             /\ disk[ExpectedFile(store[i], ".txt")].complete

\* C20: a fill_subject pass with saving disabled leaves the store as it was
\* when the pass began, in every state of the pass and at its end.
C20_FillDryRunWritesNothing ==
    (cmd = "fill_subject" /\ ~config.save) => store = began.store

=============================================================================
